---------------------------- MODULE Spec2Model ----------------------------
(***************************************************************************)
(* Steel plants dashboard (streamlit.py): the cached loader, the sidebar   *)
(* filters and the per-view aggregations, as one state machine.  One       *)
(* action, Interact, is one user interaction: a full synchronous run of    *)
(* main() (and the rerun a reload click requests).  The other actions are  *)
(* the environment writing or deleting the CSV files of the data           *)
(* directory.                                                              *)
(*                                                                         *)
(* A DataFrame is [columns, rows]; a row is [index, cell] where index is   *)
(* the pandas index label (the position in the CSV) and cell maps each     *)
(* column name to its value.  Capacities are kept in units of 1/Scale ttpa *)
(* so that a non-integer capacity (2.5 ttpa) is an integer of the model.   *)
(***************************************************************************)
EXTENDS Integers, Sequences, FiniteSets, TLC

VARIABLES files,    \* the data directory: file name -> table, for the files present
          cache,    \* st.cache_data of load_data: data_dir -> {} or {result}
          out       \* what the last interaction rendered

vars == <<files, cache, out>>

-----------------------------------------------------------------------------
(* Bounds of the model *)

MaxRows == 2        \* rows of a generated plants table
MaxEnvRows == 4     \* rows of a generated environmental table
MaxCompanies == 3   \* rows of a generated company table (besides the long one)
Scale == 2          \* capacity units per ttpa (2: halves of a ttpa)

-----------------------------------------------------------------------------
(* Column and file names of the source *)

CountryCol == "Country/Area_x"
OwnerCol == "Owner"
capcol == "Nominal crude steel capacity (ttpa)"
LatCol == "latitude"
LonCol == "longitude"
NameCol == "Plant name (English)_x"
AgeCol == "Plant age (years)"
ValueCol == "value"
LatLeft == "latitude_left"
LonLeft == "longitude_left"
RegionCol == "Region"
TotalCapacity == "total_capacity"
NumberOfPlants == "number_of_plants"
NumberOfCountries == "number_of_countries"

PlantsFile == "operating_plants.csv"
EnvFile == "merged_environmental_data.csv"
CompanyFile == "company_aggregation.csv"
DataDir == "data"

PlantsKey == "operating_plants"
EnvKey == "merged_environmental"
CompanyKey == "company_aggregation"

All == "All"

\* A missing numeric cell (pandas NaN), and the NaN a reduction of no values gives.
\* Every number of the data is >= 0, so the marker is outside the data.
NaN == -1

TextCols == {CountryCol, OwnerCol, NameCol, RegionCol}
\* A missing text cell.
NaT == "nan"
NA(col) == IF col \in TextCols THEN NaT ELSE NaN

-----------------------------------------------------------------------------
(* Sequence helpers *)

Range(s) == {s[i] : i \in 1..Len(s)}

Min2(a, b) == IF a <= b THEN a ELSE b

\* DataFrame.head(n)
Head_n(s, n) == SubSeq(s, 1, Min2(n, Len(s)))

RECURSIVE SumSeq(_)
SumSeq(s) == IF s = <<>> THEN 0 ELSE s[1] + SumSeq(Tail(s))

\* The maximum of a non-empty set of integers
MaxOf(S) == CHOOSE m \in S : \A x \in S : x <= m
MinOf(S) == CHOOSE m \in S : \A x \in S : m <= x

\* All sequences over S of length at most n
RECURSIVE SeqsUpTo(_, _)
SeqsUpTo(S, n) ==
    IF n = 0 THEN {<<>>}
    ELSE LET shorter == SeqsUpTo(S, n - 1)
         IN shorter \cup {Append(s, x) : s \in {t \in shorter : Len(t) = n - 1}, x \in S}

-----------------------------------------------------------------------------
(* DataFrames *)

Row(i, cells) == [index |-> i, cell |-> cells]

\* pd.read_csv: the rows get the index labels 1..n in file order
Table(cols, cellSeq) ==
    [columns |-> cols,
     rows |-> [i \in 1..Len(cellSeq) |-> Row(i, [c \in cols |-> cellSeq[i][c]])]]

\* Series of a column (the caller has checked that the column exists)
Column(rows, col) == [i \in 1..Len(rows) |-> rows[i].cell[col]]

Cells(rows) == [i \in 1..Len(rows) |-> rows[i].cell]

\* Series.dropna()
DropNA(series, col) == SelectSeq(series, LAMBDA v : v # NA(col))

\* Series.unique() after dropna(), as a set
Unique(rows, col) == Range(DropNA(Column(rows, col), col))

Indexes(rows) == {rows[i].index : i \in 1..Len(rows)}

\* Stable sort of a sequence of [key, item] records, descending by key
\* (sort_values(ascending=False) on a stable sort; nlargest(keep='first'))
RECURSIVE InsertDesc(_, _)
InsertDesc(sorted, e) ==
    IF sorted = <<>> THEN <<e>>
    ELSE IF sorted[1].key >= e.key THEN <<sorted[1]>> \o InsertDesc(Tail(sorted), e)
    ELSE <<e>> \o sorted

RECURSIVE SortDesc(_)
SortDesc(s) ==
    IF s = <<>> THEN <<>>
    ELSE InsertDesc(SortDesc(SubSeq(s, 1, Len(s) - 1)), s[Len(s)])

\* Python's format(x, ",.0f") of the fraction n/d: round half to even
Format0(n, d) ==
    LET q == n \div d
        r == n % d
    IN IF 2 * r < d THEN q
       ELSE IF 2 * r > d THEN q + 1
       ELSE IF q % 2 = 0 THEN q ELSE q + 1

-----------------------------------------------------------------------------
(* load_data: lines 37-52 *)

\* load_data without the st.error call
load_data_silent(dir) ==
    IF PlantsFile \in DOMAIN dir
    THEN [none |-> FALSE, error |-> FALSE,
          data |-> [k \in {PlantsKey}
                          \cup (IF EnvFile \in DOMAIN dir THEN {EnvKey} ELSE {})
                          \cup (IF CompanyFile \in DOMAIN dir THEN {CompanyKey} ELSE {})
                    |-> IF k = PlantsKey THEN dir[PlantsFile]
                        ELSE IF k = EnvKey THEN dir[EnvFile]
                        ELSE dir[CompanyFile]]]
    ELSE [none |-> TRUE, error |-> FALSE, data |-> [k \in {} |-> {}]]

\* The dict load_data returns; None is [none |-> TRUE].  error: st.error was
\* called, which st.cache_data stores with the result and replays on a hit.
load_data(dir) ==
    IF PlantsFile \in DOMAIN dir
    THEN [none |-> FALSE, error |-> FALSE,
          data |-> [k \in {PlantsKey}
                          \cup (IF EnvFile \in DOMAIN dir THEN {EnvKey} ELSE {})
                          \cup (IF CompanyFile \in DOMAIN dir THEN {CompanyKey} ELSE {})
                    |-> IF k = PlantsKey THEN dir[PlantsFile]
                        ELSE IF k = EnvKey THEN dir[EnvFile]
                        ELSE dir[CompanyFile]]]
    ELSE [none |-> TRUE, error |-> TRUE, data |-> [k \in {} |-> {}]]

\* A call of the memoized load_data(): the cached result on a hit, else the
\* function runs and its result is stored under the directory path.
EmptyCache == [d \in {DataDir} |-> {}]

CacheHit(c, d) == c[d] # {}

\* A memo that keeps no None result: a stored None counts as a miss
cached_load_data_none_not_kept(c, dir, d) ==
    IF CacheHit(c, d) /\ ~(CHOOSE r \in c[d] : TRUE).none
    THEN [result |-> CHOOSE r \in c[d] : TRUE, cache |-> c, read |-> FALSE]
    ELSE [result |-> load_data(dir),
          cache |-> [c EXCEPT ![d] = {load_data(dir)}],
          read |-> TRUE]

cached_load_data(c, dir, d) ==
    IF CacheHit(c, d)
    THEN [result |-> CHOOSE r \in c[d] : TRUE, cache |-> c, read |-> FALSE]
    ELSE [result |-> load_data(dir),
          cache |-> [c EXCEPT ![d] = {load_data(dir)}],
          read |-> TRUE]

\* A clear that leaves the entries in place
cache_clear_nothing(c) == c

\* st.cache_data.clear(): every entry of every cached function
cache_clear(c) == [d \in DOMAIN c |-> {}]

-----------------------------------------------------------------------------
(* The sidebar: lines 311-324 *)

\* Options of the country and company select boxes (the code sorts them; the
\* order of the options decides nothing, so they are kept as a set)
countries(df) ==
    {All} \cup (IF CountryCol \in df.columns THEN Unique(df.rows, CountryCol) ELSE {})

companies(df) ==
    {All} \cup (IF OwnerCol \in df.columns THEN Unique(df.rows, OwnerCol) ELSE {})

\* Series.max() skips NaN; NaN when there is no value
SeriesMax(rows, col) ==
    LET vals == Range(DropNA(Column(rows, col), col))
    IN IF vals = {} THEN NaN ELSE MaxOf(vals)

SeriesMin(rows, col) ==
    LET vals == Range(DropNA(Column(rows, col), col))
    IN IF vals = {} THEN NaN ELSE MinOf(vals)

\* int(NaN) raises ValueError
cap_max_raises(df) == capcol \in df.columns /\ SeriesMax(df.rows, capcol) = NaN

\* int() truncates toward zero; the result is in ttpa
cap_max(df) ==
    IF capcol \in df.columns THEN SeriesMax(df.rows, capcol) \div Scale ELSE 1

\* The values the slider can return: integer pairs within [0, cap_max]
SliderValues(cmax) == {r \in (0..cmax) \X (0..cmax) : r[1] <= r[2]}

-----------------------------------------------------------------------------
(* Filtering: lines 331-339 (plants) and 426-434 (environmental) *)

\* InRange with the upper bound excluded
InRange_exclusive(v, range) ==
    v # NaN /\ v >= range[1] * Scale /\ v < range[2] * Scale

\* NaN compares False with everything; range bounds are in ttpa
InRange(v, range) ==
    v # NaN /\ v >= range[1] * Scale /\ v <= range[2] * Scale

CountryFilter(rows, country) ==
    IF country # All
    THEN SelectSeq(rows, LAMBDA r : r.cell[CountryCol] = country)
    ELSE rows

OwnerFilter(rows, owner) ==
    IF owner # All
    THEN SelectSeq(rows, LAMBDA r : r.cell[OwnerCol] = owner)
    ELSE rows

CapacityFilter(columns, rows, range) ==
    IF capcol \in columns
    THEN SelectSeq(rows, LAMBDA r : InRange(r.cell[capcol], range))
    ELSE rows

\* filtered_df with the owner mask applied to df instead of filtered_df
filtered_df_owner_of_base(df, w) ==
    CapacityFilter(df.columns, OwnerFilter(df.rows, w.company), w.range)

\* filtered_df of main
filtered_df(df, w) ==
    CapacityFilter(df.columns,
                   OwnerFilter(CountryFilter(df.rows, w.country), w.company),
                   w.range)

-----------------------------------------------------------------------------
(* create_metrics_row: lines 54-67 *)

SeriesSum(rows, col) == SumSeq(DropNA(Column(rows, col), col))
SeriesCount(rows, col) == Len(DropNA(Column(rows, col), col))

\* The four numbers as displayed (NaN: the card shows "nan")
create_metrics_row(columns, rows) ==
    [plants |-> Len(rows),
     total |-> IF capcol \in columns
               THEN Format0(SeriesSum(rows, capcol), Scale) ELSE 0,
     average |-> IF capcol \in columns
                 THEN IF SeriesCount(rows, capcol) = 0 THEN NaN
                      ELSE Format0(SeriesSum(rows, capcol),
                                   Scale * SeriesCount(rows, capcol))
                 ELSE 0,
     ncountries |-> IF CountryCol \in columns
                    THEN Cardinality(Unique(rows, CountryCol)) ELSE 0]

-----------------------------------------------------------------------------
(* create_geographic_map: lines 69-123 *)

MapTypes == {"scatter", "capacity", "density"}

\* Series.fillna(0) assigned to the column of the frame
FillNA(rows, col) ==
    [i \in 1..Len(rows) |->
        [rows[i] EXCEPT !.cell[col] = IF @ = NaN THEN 0 ELSE @]]

\* df.dropna(subset=cols): a new frame of the rows with every cell present
DropRows(rows, cols) ==
    SelectSeq(rows, LAMBDA r : \A c \in cols : r.cell[c] # NA(c))

NoFig(st, warn) == [status |-> st, warning |-> warn, rows |-> <<>>]
Fig(rows) == [status |-> "fig", warning |-> FALSE, rows |-> rows]

\* "raised": a column named in the body or handed to plotly express is not a
\* column of the frame (KeyError, or plotly's ValueError)
create_geographic_map(columns, rows, map_type) ==
    IF LatCol \notin columns \/ LonCol \notin columns
    THEN NoFig("none", TRUE)
    ELSE LET df_clean == DropRows(rows, {LatCol, LonCol})
         IN CASE map_type = "scatter" ->
                   IF {OwnerCol, capcol, CountryCol} \subseteq columns
                   THEN Fig(df_clean) ELSE NoFig("raised", FALSE)
              [] map_type = "capacity" ->
                   IF {capcol, OwnerCol} \subseteq columns
                   THEN Fig(FillNA(df_clean, capcol)) ELSE NoFig("raised", FALSE)
              [] map_type = "density" -> Fig(df_clean)
              [] OTHER -> NoFig("none", FALSE)

-----------------------------------------------------------------------------
(* create_company_charts: lines 125-154, and the company tab: lines 376-396 *)

TopCompanies == 20

\* One bar chart: the owners on x, the metric on y, in the order of the frame
Bars(rows, metric) ==
    [i \in 1..Len(rows) |-> [owner |-> rows[i].cell[OwnerCol], y |-> rows[i].cell[metric]]]

top_companies(company_rows) == Head_n(company_rows, TopCompanies)

NoCharts(st) ==
    [status |-> st, fig_capacity |-> <<>>, fig_plants |-> <<>>, fig_countries |-> <<>>]

create_company_charts(company_rows) ==
    IF company_rows = <<>>
    THEN NoCharts("none")
    ELSE [status |-> "fig",
          fig_capacity |-> Bars(top_companies(company_rows), TotalCapacity),
          fig_plants |-> Bars(top_companies(company_rows), NumberOfPlants),
          fig_countries |-> Bars(top_companies(company_rows), NumberOfCountries)]

agg_present(data) == CompanyKey \in DOMAIN data /\ data[CompanyKey].rows # <<>>

\* company_df after the owner and country restrictions (lines 380-386)
company_df(data, w, filtered) ==
    LET byOwner == OwnerFilter(data[CompanyKey].rows, w.company)
    IN IF w.country # All
       THEN SelectSeq(byOwner,
                LAMBDA r : r.cell[OwnerCol] \in Range(Column(filtered, OwnerCol)))
       ELSE byOwner

\* The tab when the company table is there
company_charts(data, w, filtered, columns) ==
    IF w.country # All /\ OwnerCol \notin columns
    THEN NoCharts("raised")
    ELSE create_company_charts(company_df(data, w, filtered))

\* company_tab without the check that the table was loaded: KeyError
company_tab_unchecked(data, w, filtered, columns) ==
    IF ~agg_present(data) THEN NoCharts("raised")
    ELSE company_charts(data, w, filtered, columns)

company_tab(data, w, filtered, columns) ==
    IF ~agg_present(data) THEN NoCharts("disabled")
    ELSE company_charts(data, w, filtered, columns)

-----------------------------------------------------------------------------
(* create_country_analysis: lines 156-166, and the country tab: lines 399-413 *)

\* The bars of the two country charts: per country, the number of plants and
\* the summed capacity.  The tables of the model hold fewer countries than
\* the 15 the charts keep, so every country has its bar.
country_tab(columns, rows) ==
    IF CountryCol \notin columns
    THEN [status |-> "raised", counts |-> <<>>, capacity |-> <<>>]
    ELSE [status |-> "fig",
          counts |-> [c \in Unique(rows, CountryCol) |->
                         Len(CountryFilter(rows, c))],
          capacity |-> IF capcol \in columns
                       THEN [c \in Unique(rows, CountryCol) |->
                                SeriesSum(CountryFilter(rows, c), capcol)]
                       ELSE <<>>]

-----------------------------------------------------------------------------
(* create_environmental_metrics: lines 168-182 *)

\* The values in ascending order
Ascending(vals) ==
    LET desc == SortDesc([i \in 1..Len(vals) |-> [key |-> vals[i], item |-> i]])
    IN [i \in 1..Len(vals) |-> desc[Len(vals) + 1 - i].key]

\* Four times Series.quantile(0.75) (linear interpolation between the order
\* statistics at position 0.75 * (n - 1)); NaN for no values
Quantile75x4(vals) ==
    IF vals = <<>> THEN NaN
    ELSE LET sorted == Ascending(vals)
             lo == (3 * (Len(vals) - 1)) \div 4
             rem == (3 * (Len(vals) - 1)) % 4
         IN IF rem = 0 THEN 4 * sorted[lo + 1]
            ELSE 4 * sorted[lo + 1] + rem * (sorted[lo + 2] - sorted[lo + 1])

\* len(df[df['value'] > df['value'].quantile(0.75)])
high_risk_plants(rows) ==
    LET q4 == Quantile75x4(DropNA(Column(rows, ValueCol), ValueCol))
    IN Len(SelectSeq(rows, LAMBDA r :
               r.cell[ValueCol] # NaN /\ q4 # NaN /\ 4 * r.cell[ValueCol] > q4))

create_environmental_metrics(columns, rows) ==
    IF ValueCol \in columns
    THEN [average |-> IF SeriesCount(rows, ValueCol) = 0 THEN NaN
                      ELSE Format0(SeriesSum(rows, ValueCol), SeriesCount(rows, ValueCol)),
          max |-> SeriesMax(rows, ValueCol),
          min |-> SeriesMin(rows, ValueCol),
          high_risk |-> high_risk_plants(rows)]
    ELSE [average |-> 0, max |-> 0, min |-> 0, high_risk |-> 0]

-----------------------------------------------------------------------------
(* create_environmental_map: lines 184-250 *)

EnvMapTypes == {"environmental", "capacity_env", "density_env"}

create_environmental_map(columns, rows, map_type) ==
    IF LatLeft \notin columns \/ LonLeft \notin columns
    THEN NoFig("none", TRUE)
    ELSE IF ValueCol \notin columns
    THEN NoFig("raised", FALSE)
    ELSE LET df_clean == DropRows(rows, {LatLeft, LonLeft, ValueCol})
         IN CASE map_type = "environmental" ->
                   IF {OwnerCol, CountryCol, capcol} \subseteq columns
                   THEN Fig(df_clean) ELSE NoFig("raised", FALSE)
              [] map_type = "capacity_env" ->
                   IF capcol \notin columns THEN NoFig("none", FALSE)
                   ELSE IF OwnerCol \in columns
                   THEN Fig(FillNA(df_clean, capcol)) ELSE NoFig("raised", FALSE)
              [] map_type = "density_env" -> Fig(df_clean)
              [] OTHER -> NoFig("none", FALSE)

-----------------------------------------------------------------------------
(* create_environmental_analysis: lines 252-297 *)

TopRisk == 20

\* df.nlargest(n, 'value'): the rows with a value, descending, first kept on ties
nlargest(rows, n) ==
    LET present == SelectSeq(rows, LAMBDA r : r.cell[ValueCol] # NaN)
        sorted == SortDesc([i \in 1..Len(present) |->
                               [key |-> present[i].cell[ValueCol], item |-> present[i]]])
    IN Head_n([i \in 1..Len(sorted) |-> sorted[i].item], n)

create_environmental_analysis(columns, rows) ==
    IF ValueCol \notin columns
    THEN [status |-> "none", top_risk |-> <<>>]
    ELSE IF NameCol \notin columns /\ OwnerCol \notin columns
    THEN [status |-> "raised", top_risk |-> <<>>]
    ELSE [status |-> "fig", top_risk |-> nlargest(rows, TopRisk)]

-----------------------------------------------------------------------------
(* The environmental tab: lines 416-502 *)

env_present(data) == EnvKey \in DOMAIN data /\ data[EnvKey].rows # <<>>

\* env_df after the three filters (lines 423-434)
env_df(env, w) ==
    CapacityFilter(env.columns,
                   OwnerFilter(CountryFilter(env.rows, w.country), w.company),
                   w.range)

\* A filter on a column the environmental table lacks raises KeyError
env_filter_raises(env, w) ==
    \/ w.country # All /\ CountryCol \notin env.columns
    \/ w.company # All /\ OwnerCol \notin env.columns

\* The summary tables after the charts (lines 478-499)
env_summary_raises(columns) ==
    \/ /\ ValueCol \in columns /\ NameCol \in columns
       /\ ~({OwnerCol, CountryCol, capcol} \subseteq columns)
    \/ RegionCol \in columns /\ ValueCol \notin columns

\* The metrics row computed from the table as loaded instead of env_df
env_metrics_unfiltered(env, w) ==
    create_environmental_metrics(env.columns, env.rows)

\* create_environmental_metrics(env_df) (line 438)
env_metrics(env, w) ==
    create_environmental_metrics(env.columns, env_df(env, w))

NoMetrics == [average |-> 0, max |-> 0, min |-> 0, high_risk |-> 0]

EnvView(st, rows, metrics, map, analysis) ==
    [status |-> st, rows |-> rows, metrics |-> metrics, map |-> map,
     analysis |-> analysis]

EnvNothing(st) ==
    EnvView(st, <<>>, NoMetrics, NoFig("skipped", FALSE),
            [status |-> "skipped", top_risk |-> <<>>])

env_tab(data, w) ==
    IF ~env_present(data) THEN EnvNothing("disabled")
    ELSE IF env_filter_raises(data[EnvKey], w) THEN EnvNothing("raised")
    ELSE LET columns == data[EnvKey].columns
             rows == env_df(data[EnvKey], w)
             metrics == env_metrics(data[EnvKey], w)
             map == create_environmental_map(columns, rows, w.env_map_type)
             analysis == create_environmental_analysis(columns, rows)
         IN IF map.status = "raised"
            THEN EnvView("raised", rows, metrics, map,
                         [status |-> "skipped", top_risk |-> <<>>])
            ELSE IF analysis.status = "raised" \/ env_summary_raises(columns)
            THEN EnvView("raised", rows, metrics, map, analysis)
            ELSE EnvView("done", rows, metrics, map, analysis)

-----------------------------------------------------------------------------
(* The data tables tab (lines 505-524) and the raw data tab (lines 527-543) *)

\* Which of the three summary tables are shown; each is guarded by its columns
tables_tab(columns) ==
    [status |-> "done",
     shown |-> (IF capcol \in columns /\ OwnerCol \in columns THEN {"top_comp"} ELSE {})
               \cup (IF CountryCol \in columns THEN {"top_countries"} ELSE {})
               \cup (IF AgeCol \in columns THEN {"age_stats"} ELSE {})]

\* Column profiling of the filtered table
raw_tab(columns, rows) ==
    [status |-> "done",
     total_rows |-> Len(rows),
     total_columns |-> Cardinality(columns),
     null_count |-> [c \in columns |-> Len(rows) - SeriesCount(rows, c)]]

SkippedTables == [status |-> "skipped", shown |-> {}]
SkippedRaw ==
    [status |-> "skipped", total_rows |-> 0, total_columns |-> 0, null_count |-> <<>>]
SkippedCompany == NoCharts("skipped")
SkippedCountry == [status |-> "skipped", counts |-> <<>>, capacity |-> <<>>]

-----------------------------------------------------------------------------
(* The frames of a run and the assignments made to them *)

\* The frame object each name of a run is bound to.  df and env are the
\* tables of the loaded dict; df.copy() (line 331), .copy() (line 423) and
\* dropna (lines 74, 190) each return a new object, and company_df is the
\* loaded company table itself (line 380).
FrameOf ==
    [df |-> "df", filtered_df |-> "filtered_df", df_clean |-> "df_clean",
     env |-> "env", env_df |-> "env_df", env_clean |-> "env_clean",
     company |-> "company", company_df |-> "company"]

\* The name under which a run holds a table of the loaded dict
NameOf(k) == IF k = PlantsKey THEN "df" ELSE IF k = EnvKey THEN "env" ELSE "company"

\* The column assignments of a run (lines 93 and 214): the name assigned
\* through, the column, and the index labels of the rows of that frame
Writes(mapV, envV, envColumns, w) ==
    (IF w.map_type = "capacity" /\ mapV.status = "fig"
     THEN {[name |-> "df_clean", column |-> capcol, index |-> Indexes(mapV.rows)]}
     ELSE {})
    \cup (IF w.env_map_type = "capacity_env" /\ envV.map.status = "fig"
             /\ capcol \in envColumns
          THEN {[name |-> "env_clean", column |-> capcol,
                 index |-> Indexes(envV.map.rows)]}
          ELSE {})

\* The rows seen through name once the run's assignments are made: an
\* assignment of fillna(0) shows in every name bound to the assigned object
AfterWrites(name, rows, writes) ==
    [i \in 1..Len(rows) |->
        LET hits == {wr \in writes : /\ FrameOf[wr.name] = FrameOf[name]
                                     /\ rows[i].index \in wr.index}
        IN IF hits = {} THEN rows[i]
           ELSE LET wr == CHOOSE x \in hits : TRUE
                IN [rows[i] EXCEPT !.cell[wr.column] = IF @ = NaN THEN 0 ELSE @]]

\* The tables of the loaded dict as the run leaves them
frames_after(data, writes) ==
    [k \in DOMAIN data |->
        [data[k] EXCEPT !.rows = AfterWrites(NameOf(k), @, writes)]]

\* Option lists enumerated from the rows the filters kept
options_source_filtered(df, filtered) == [df EXCEPT !.rows = filtered]

\* The frame the country and company option lists enumerate (lines 312, 315)
options_source(df, filtered) == df

-----------------------------------------------------------------------------
(* main: lines 299-552 *)

\* The widget values of a run that never reaches the widgets
NoWidgets ==
    [country |-> All, company |-> All, range |-> <<0, 0>>, map_type |-> "scatter",
     env_map_type |-> "environmental", reload |-> FALSE]

\* A run that ended before the filtering: st.stop() after a None load
\* ("stopped"), or int(NaN) in the sidebar ("raised")
EarlyEnd(st, read, reloaded, error) ==
    [status |-> st, read |-> read, reloaded |-> reloaded, error |-> error,
     messages |-> IF error THEN {"operating_plants.csv not found"} ELSE {},
     widgets |-> NoWidgets, countries |-> {}, companies |-> {}, cap_max |-> 0,
     filtered |-> <<>>, frames |-> <<>>,
     metrics |-> [plants |-> 0, total |-> 0, average |-> 0, ncountries |-> 0],
     metrics_shown |-> FALSE,
     map |-> NoFig("skipped", FALSE), company |-> SkippedCompany,
     country |-> SkippedCountry, env |-> EnvNothing("skipped"),
     tables |-> SkippedTables, raw |-> SkippedRaw]

\* The warnings and notes the tabs show in place of a chart
Messages(mapV, companyV, envV) ==
    (IF mapV.status = "none" THEN {"Unable to create map"} ELSE {})
    \cup (IF companyV.status = "disabled"
          THEN {"Company aggregation data not available"} ELSE {})
    \cup (IF companyV.status = "none"
          THEN {"No company data available for filters"} ELSE {})
    \cup (IF envV.status = "disabled"
          THEN {"Environmental data not available"} ELSE {})
    \cup (IF envV.map.status = "none"
          THEN {"Unable to create environmental map"} ELSE {})
    \cup (IF envV.analysis.status = "none"
          THEN {"Environmental value data not available"} ELSE {})

\* The run from the filtering on (lines 331-552).  An exception in one tab
\* ends the run: the tabs after it are not computed.
Render(data, w, read, reloaded) ==
    LET df == data[PlantsKey]
        columns == df.columns
        filtered == filtered_df(df, w)
        mapV == create_geographic_map(columns, filtered, w.map_type)
        r1 == mapV.status = "raised"
        companyV == IF r1 THEN SkippedCompany
                    ELSE company_tab(data, w, filtered, columns)
        r2 == r1 \/ companyV.status = "raised"
        countryV == IF r2 THEN SkippedCountry ELSE country_tab(columns, filtered)
        r3 == r2 \/ countryV.status = "raised"
        envV == IF r3 THEN EnvNothing("skipped") ELSE env_tab(data, w)
        r4 == r3 \/ envV.status = "raised"
        envColumns == IF EnvKey \in DOMAIN data THEN data[EnvKey].columns ELSE {}
        source == options_source(df, filtered)
    IN [status |-> IF r4 THEN "raised" ELSE "done",
        read |-> read, reloaded |-> reloaded, error |-> FALSE,
        messages |-> Messages(mapV, companyV, envV),
        widgets |-> w,
        countries |-> countries(source), companies |-> companies(source),
        cap_max |-> cap_max(df),
        filtered |-> filtered,
        frames |-> frames_after(data, Writes(mapV, envV, envColumns, w)),
        metrics |-> create_metrics_row(columns, filtered),
        metrics_shown |-> TRUE,
        map |-> mapV, company |-> companyV, country |-> countryV, env |-> envV,
        tables |-> IF r4 THEN SkippedTables ELSE tables_tab(columns),
        raw |-> IF r4 THEN SkippedRaw ELSE raw_tab(columns, filtered)]

\* One run of the script.  rerun: the run ended in st.experimental_rerun().
Pass(c, dir, w, reloaded) ==
    LET ld == cached_load_data(c, dir, DataDir)
    IN IF ld.result.none
       THEN [cache |-> ld.cache, rerun |-> FALSE,
             out |-> EarlyEnd("stopped", ld.read, reloaded, ld.result.error)]
       ELSE IF cap_max_raises(ld.result.data[PlantsKey])
       THEN [cache |-> ld.cache, rerun |-> FALSE,
             out |-> EarlyEnd("raised", ld.read, reloaded, FALSE)]
       ELSE IF w.reload
       THEN [cache |-> cache_clear(ld.cache), rerun |-> TRUE,
             out |-> EarlyEnd("rerun", ld.read, reloaded, FALSE)]
       ELSE [cache |-> ld.cache, rerun |-> FALSE,
             out |-> Render(ld.result.data, w, ld.read, reloaded)]

\* The widget values a run can receive: what the widgets it renders offer
Offered(c, dir) ==
    LET ld == cached_load_data(c, dir, DataDir)
    IN IF ld.result.none \/ cap_max_raises(ld.result.data[PlantsKey])
       THEN {[NoWidgets EXCEPT !.reload = b] : b \in BOOLEAN}
       ELSE LET df == ld.result.data[PlantsKey]
            IN [country : countries(df), company : companies(df),
                range : SliderValues(cap_max(df)), map_type : MapTypes,
                env_map_type : IF env_present(ld.result.data)
                               THEN EnvMapTypes ELSE {"environmental"},
                reload : BOOLEAN]

\* The widget values of the rerun after a reload: a widget keeps its value
\* when its options are the same as before (the same widget), else it is a
\* new widget with its default value; the button is not clicked again.
RerunWidgets(w, old, new) ==
    IF new.none \/ cap_max_raises(new.data[PlantsKey]) THEN NoWidgets
    ELSE LET df0 == old.data[PlantsKey]
             df1 == new.data[PlantsKey]
         IN [country |-> IF countries(df1) = countries(df0) THEN w.country ELSE All,
             company |-> IF companies(df1) = companies(df0) THEN w.company ELSE All,
             range |-> IF cap_max(df1) = cap_max(df0) THEN w.range
                       ELSE <<0, cap_max(df1)>>,
             map_type |-> w.map_type,
             env_map_type |-> IF env_present(new.data)
                              THEN w.env_map_type ELSE "environmental",
             reload |-> FALSE]

\* One interaction: the run it triggers and, after a reload click, the rerun
main(c, dir, w) ==
    LET first == Pass(c, dir, w, FALSE)
    IN IF first.rerun
       THEN Pass(first.cache, dir,
                 RerunWidgets(w, cached_load_data(c, dir, DataDir).result,
                              load_data(dir)),
                 TRUE)
       ELSE first

-----------------------------------------------------------------------------
(* The data sets *)

PlantCols == {CountryCol, OwnerCol, capcol, LatCol, LonCol, NameCol}
EnvCols == {CountryCol, OwnerCol, capcol, ValueCol, LatLeft, LonLeft, NameCol, RegionCol}
CompanyCols == {OwnerCol, TotalCapacity, NumberOfPlants, NumberOfCountries}

Plant(country, owner, cap, lat, lon, name) ==
    [c \in PlantCols |->
        CASE c = CountryCol -> country [] c = OwnerCol -> owner [] c = capcol -> cap
          [] c = LatCol -> lat [] c = LonCol -> lon [] OTHER -> name]

Env(country, owner, cap, value, lat, name) ==
    [c \in EnvCols |->
        CASE c = CountryCol -> country [] c = OwnerCol -> owner [] c = capcol -> cap
          [] c = ValueCol -> value [] c = LatLeft -> lat [] c = LonLeft -> lat
          [] c = NameCol -> name [] OTHER -> "EU"]

Company(owner, capacity, plants, ncountries) ==
    [c \in CompanyCols |->
        CASE c = OwnerCol -> owner [] c = TotalCapacity -> capacity
          [] c = NumberOfPlants -> plants [] OTHER -> ncountries]

\* Capacities in 1/Scale ttpa: 1.0, 2.5 (the non-integer maximum), 2.0, absent
PlantAX == Plant("A", "X", 1 * Scale, 10, 10, "p1")
PlantAY == Plant("A", "Y", 2 * Scale + 1, 10, 10, "p2")
PlantBY == Plant("B", "Y", 2 * Scale, 10, NaN, "p3")
PlantBX == Plant("B", "X", NaN, 10, 10, "p4")
PlantPool == {PlantAX, PlantAY, PlantBY, PlantBX}

\* Plants tables of the filter checks: any rows of the pool in any order, with
\* and without the capacity column
FilterPlants ==
    {Table(cols, s) : cols \in {PlantCols, PlantCols \ {capcol}},
                      s \in SeqsUpTo(PlantPool, MaxRows)}

\* The tables the analysis writes: every expected column, some capacity
PlantsMany == Table(PlantCols, <<PlantAX, PlantBY, PlantBX>>)
PlantsSingle == Table(PlantCols, <<PlantAY>>)
LifePlants == {PlantsMany, PlantsSingle}

EnvA10 == Env("A", "X", 1 * Scale, 10, 5, "p1")
EnvA20 == Env("A", "Y", 2 * Scale, 20, 5, "p2")
EnvB30 == Env("B", "X", 2 * Scale, 30, 5, "p3")
EnvB40 == Env("B", "Y", 1 * Scale, 40, NaN, "p4")
EnvBNa == Env("B", "X", NaN, NaN, 5, "p5")
EnvPool == <<EnvA10, EnvA20, EnvB30, EnvB40, EnvBNa>>

\* The rows of EnvPool at the positions S, in pool order
RECURSIVE PickRows(_, _)
PickRows(pool, S) ==
    IF pool = <<>> THEN <<>>
    ELSE (IF Len(pool) \in S THEN PickRows(SubSeq(pool, 1, Len(pool) - 1), S)
                                  \o <<pool[Len(pool)]>>
          ELSE PickRows(SubSeq(pool, 1, Len(pool) - 1), S))

EnvTables ==
    {Table(EnvCols, PickRows(EnvPool, S)) :
        S \in {T \in SUBSET (1..Len(EnvPool)) : Cardinality(T) <= MaxEnvRows}}

LifeEnv == Table(EnvCols, <<EnvA10, EnvB40, EnvBNa>>)
EnvPlants == Table(PlantCols, <<PlantAX, PlantAY, PlantBY, PlantBX>>)

CompanyX == Company("X", 5, 2, 1)
CompanyY == Company("Y", 9, 1, 2)
CompanyZ == Company("Z", 5, 3, 1)
CompanyPool == {CompanyX, CompanyY, CompanyZ}

\* More owners than the charts keep, the largest metrics last
LongNames ==
    <<"c01", "c02", "c03", "c04", "c05", "c06", "c07", "c08", "c09", "c10", "c11",
      "c12", "c13", "c14", "c15", "c16", "c17", "c18", "c19", "c20", "c21", "c22">>
LongCompanies ==
    Table(CompanyCols, [i \in 1..Len(LongNames) |-> Company(LongNames[i], i, 1 + (i % 3), 1)])

\* Company tables: one row per owner, in any order
CompanyTables ==
    {Table(CompanyCols, s) :
        s \in {t \in SeqsUpTo(CompanyPool, MaxCompanies) :
                  \A i, j \in 1..Len(t) : i # j => t[i] # t[j]}}
    \cup {LongCompanies}

LifeCompany == Table(CompanyCols, <<CompanyY, CompanyX>>)

\* A directory holding the given tables ({} for a file that is absent)
Dir(plants, env, company) ==
    [f \in (IF plants = {} THEN {} ELSE {PlantsFile})
           \cup (IF env = {} THEN {} ELSE {EnvFile})
           \cup (IF company = {} THEN {} ELSE {CompanyFile})
     |-> IF f = PlantsFile THEN CHOOSE t \in plants : TRUE
         ELSE IF f = EnvFile THEN CHOOSE t \in env : TRUE
         ELSE CHOOSE t \in company : TRUE]

-----------------------------------------------------------------------------
(* The state machine *)

NotRun == EarlyEnd("init", FALSE, FALSE, FALSE)

\* The slider is left at its default, the full range
DefaultRange(w) ==
    LET ld == cached_load_data(cache, files, DataDir)
    IN IF ld.result.none THEN w.range = <<0, 0>>
       ELSE w.range = <<0, cap_max(ld.result.data[PlantsKey])>>

\* One user interaction with the widget values w
Interact(w) ==
    /\ w \in Offered(cache, files)
    /\ LET run == main(cache, files, w)
       IN cache' = run.cache /\ out' = run.out
    /\ UNCHANGED files

\* The analysis (or anyone) writes a file of the data directory
WriteFile(f, t) ==
    /\ IF f \in DOMAIN files THEN files[f] # t ELSE TRUE
    /\ files' = [g \in DOMAIN files \cup {f} |-> IF g = f THEN t ELSE files[g]]
    /\ UNCHANGED <<cache, out>>

RemoveFile(f) ==
    /\ f \in DOMAIN files
    /\ files' = [g \in DOMAIN files \ {f} |-> files[g]]
    /\ UNCHANGED <<cache, out>>

\* The dashboard over the directory the analysis maintains
LifeWidgets ==
    [country : {All, "A"}, company : {All}, range : SliderValues(2),
     map_type : {"scatter", "capacity"},
     env_map_type : {"environmental", "capacity_env"}, reload : BOOLEAN]

Init ==
    /\ files \in {Dir(p, e, c) : p \in {{}} \cup {{t} : t \in LifePlants},
                                 e \in {{}, {LifeEnv}}, c \in {{}, {LifeCompany}}}
    /\ cache = EmptyCache
    /\ out = NotRun

Next ==
    \/ \E w \in LifeWidgets : DefaultRange(w) /\ Interact(w)
    \/ \E t \in LifePlants : WriteFile(PlantsFile, t)
    \/ WriteFile(EnvFile, LifeEnv)
    \/ WriteFile(CompanyFile, LifeCompany)
    \/ \E f \in {PlantsFile, EnvFile, CompanyFile} : RemoveFile(f)

Spec == Init /\ [][Next]_vars

-----------------------------------------------------------------------------
(* The first interaction with a freshly started dashboard, over every data  *)
(* set of the model: the filters and the aggregations as functions of the   *)
(* tables and the widget values                                             *)

\* Tables lacking one expected column
ColumnPlants == {Table(PlantCols \ {c}, <<PlantAX, PlantBY>>) : c \in PlantCols}
ColumnEnv == {Table(EnvCols \ {c}, <<EnvA10, EnvB40>>) : c \in EnvCols}

FirstDirs ==
    {Dir({p}, {}, {}) : p \in FilterPlants}
    \cup {Dir({EnvPlants}, {Table(cols, Cells(e.rows))}, {}) :
             cols \in {EnvCols, EnvCols \ {capcol}}, e \in EnvTables}
    \cup {Dir({EnvPlants}, {}, {c}) : c \in CompanyTables}
    \cup {Dir({p}, {}, {LifeCompany}) : p \in ColumnPlants}
    \cup {Dir({EnvPlants}, {e}, {}) : e \in ColumnEnv}

InitFirst ==
    /\ files \in FirstDirs
    /\ cache = EmptyCache
    /\ out = NotRun

NextFirst ==
    /\ out.status = "init"
    /\ \E w \in Offered(cache, files) : ~w.reload /\ Interact(w)

SpecFirst == InitFirst /\ [][NextFirst]_vars

-----------------------------------------------------------------------------
(* What the last run worked on *)

Loaded == cache[DataDir] # {} /\ ~(CHOOSE r \in cache[DataDir] : TRUE).none
Data == (CHOOSE r \in cache[DataDir] : TRUE).data
Base == Data[PlantsKey]

\* The last run reached the filtering and the metrics row
Filtered == out.metrics_shown

\* The last run filtered the environmental table
EnvFiltered == out.env.map.status # "skipped"

\* The rows of a table matching the selected country and owner
Matching(rows, w) ==
    {r \in Range(rows) :
        /\ w.country = All \/ r.cell[CountryCol] = w.country
        /\ w.company = All \/ r.cell[OwnerCol] = w.company}

-----------------------------------------------------------------------------
(* C1: with country "All", owner "All" and the slider at its default (the  *)
(* full range it offers), the filtered table is the base table: the same   *)
(* rows in the same order.                                                 *)

C1_FullRangeReturnsBase ==
    (/\ Filtered
     /\ out.widgets.country = All /\ out.widgets.company = All
     /\ out.widgets.range = <<0, out.cap_max>>)
    => out.filtered = Base.rows

-----------------------------------------------------------------------------
(* C2: filtering is conjunctive.  The rows the chain keeps are those the   *)
(* country-only, the owner-only and the capacity-only filter of the base   *)
(* table all keep, in base order, and every order of applying the three    *)
(* filters gives the same table.                                           *)

C2_Conjunctive ==
    Filtered =>
        LET w == out.widgets
            cols == Base.columns
            byCountry == Indexes(CountryFilter(Base.rows, w.country))
            byOwner == Indexes(OwnerFilter(Base.rows, w.company))
            byCapacity == Indexes(CapacityFilter(cols, Base.rows, w.range))
            both == byCountry \cap byOwner \cap byCapacity
        IN /\ out.filtered = SelectSeq(Base.rows, LAMBDA r : r.index \in both)
           /\ out.filtered
                = OwnerFilter(CountryFilter(CapacityFilter(cols, Base.rows, w.range),
                                            w.country), w.company)
           /\ out.filtered
                = CountryFilter(CapacityFilter(cols, OwnerFilter(Base.rows, w.company),
                                               w.range), w.country)
           /\ out.filtered
                = CapacityFilter(cols, CountryFilter(OwnerFilter(Base.rows, w.company),
                                                     w.country), w.range)

\* All three filters are active and keep some rows but not all
C2_Witness ==
    /\ Filtered
    /\ out.widgets.country # All /\ out.widgets.company # All
    /\ out.widgets.range # <<0, out.cap_max>>
    /\ out.filtered # <<>>
    /\ Len(out.filtered) < Len(Base.rows)

-----------------------------------------------------------------------------
(* C3: when the table has the capacity column, the capacity predicate      *)
(* keeps exactly the rows whose capacity is present and lies in [min, max],*)
(* both bounds included; when the table lacks the column the predicate is  *)
(* skipped.  For the plants table and for the environmental table.         *)

InBounds(v, range) == v # NaN /\ range[1] * Scale <= v /\ v <= range[2] * Scale

KeptExactly(table, kept, w) ==
    Indexes(kept) =
        {r.index : r \in {m \in Matching(table.rows, w) :
                             capcol \in table.columns
                                => InBounds(m.cell[capcol], w.range)}}

C3_CapacityPredicate ==
    /\ Filtered => KeptExactly(Base, out.filtered, out.widgets)
    /\ EnvFiltered => KeptExactly(Data[EnvKey], out.env.rows, out.widgets)

\* A row at both bounds is kept and a row without capacity is dropped
C3_Witness ==
    /\ Filtered
    /\ capcol \in Base.columns
    /\ \E i \in 1..Len(out.filtered) :
          /\ out.filtered[i].cell[capcol] = out.widgets.range[1] * Scale
          /\ out.filtered[i].cell[capcol] = out.widgets.range[2] * Scale
    /\ \E r \in Matching(Base.rows, out.widgets) :
          r.cell[capcol] = NaN /\ r.index \notin Indexes(out.filtered)

-----------------------------------------------------------------------------
(* C4: when the plants file is absent in a run that executes load_data (no *)
(* result is memoized for the directory), the load yields no data, the     *)
(* error message is shown and the run halts: no filter is applied and none *)
(* of the six views is computed.                                           *)

NothingRendered(o) ==
    /\ ~o.metrics_shown /\ o.filtered = <<>>
    /\ o.map.status = "skipped" /\ o.company.status = "skipped"
    /\ o.country.status = "skipped" /\ o.env.status = "skipped"
    /\ o.tables.status = "skipped" /\ o.raw.status = "skipped"

Halted(o, c) ==
    /\ o.status = "stopped"
    /\ o.error /\ "operating_plants.csv not found" \in o.messages
    /\ NothingRendered(o)
    /\ c[DataDir] # {} /\ \A r \in c[DataDir] : r.none

\* A step that leaves the files alone is an interaction
C4_AbsentPlantsHalts ==
    [][(files' = files /\ PlantsFile \notin DOMAIN files /\ out'.read)
          => Halted(out', cache')]_vars

\* The statement without the memo: whenever the file is absent the run halts
C4_HaltsWheneverAbsent ==
    [][(files' = files /\ PlantsFile \notin DOMAIN files)
          => Halted(out', cache')]_vars

C4_Witness ==
    /\ PlantsFile \notin DOMAIN files
    /\ out.read /\ out.status = "stopped" /\ out.error
    /\ EnvFile \in DOMAIN files

-----------------------------------------------------------------------------
(* C5: a successful load is memoized under the directory path: a later run *)
(* takes the tables from the memo and reads no file, whatever the files    *)
(* hold by then.  A reload click clears the memo, and the rerun it starts  *)
(* reads the files again and shows what they hold now.                     *)

\* The memo holds what load_data reads from the directory now
ReflectsFiles(c, dir) ==
    /\ c[DataDir] # {}
    /\ \A r \in c[DataDir] :
          /\ r.none <=> PlantsFile \notin DOMAIN dir
          /\ ~r.none =>
               /\ r.data[PlantsKey] = dir[PlantsFile]
               /\ EnvKey \in DOMAIN r.data <=> EnvFile \in DOMAIN dir
               /\ EnvKey \in DOMAIN r.data => r.data[EnvKey] = dir[EnvFile]
               /\ CompanyKey \in DOMAIN r.data <=> CompanyFile \in DOMAIN dir
               /\ CompanyKey \in DOMAIN r.data => r.data[CompanyKey] = dir[CompanyFile]

\* The run showed the plants table t
Shows(o, t) ==
    /\ o.status = "done"
    /\ o.countries = {All} \cup {r.cell[CountryCol] : r \in Range(t.rows)}
    /\ o.companies = {All} \cup {r.cell[OwnerCol] : r \in Range(t.rows)}
    /\ Indexes(o.filtered) \subseteq Indexes(t.rows)
    /\ \A r \in Range(o.filtered) : r \in Range(t.rows)

C5_MemoAndReload ==
    [][files' = files =>
          /\ (Loaded /\ ~out'.reloaded)
                => (cache' = cache /\ ~out'.read /\ Shows(out', Base))
          /\ out'.reloaded
                => /\ out'.read
                   /\ ReflectsFiles(cache', files)
                   /\ PlantsFile \in DOMAIN files => Shows(out', files[PlantsFile])
                   /\ PlantsFile \notin DOMAIN files => out'.status = "stopped"]_vars

\* After a reload the dashboard shows a table other than the one memoized before
C5_Witness ==
    /\ out.reloaded /\ out.read /\ out.status = "done"
    /\ Base = PlantsSingle
    /\ PlantsFile \in DOMAIN files /\ files[PlantsFile] = PlantsSingle

-----------------------------------------------------------------------------
(* C6: when an optional file was absent at the load (and the plants file   *)
(* present), the dependent tab is disabled with its message, the run ends  *)
(* without an error, and every other view is computed from the filtered    *)
(* plants table.                                                           *)

\* The views that need only the plants table, computed from the filtered table
PlantViewsComputed(o) ==
    /\ o.metrics_shown /\ o.metrics.plants = Len(o.filtered)
    /\ o.map.status = "fig"
    /\ Indexes(o.map.rows) \subseteq Indexes(o.filtered)
    /\ o.country.status = "fig"
    /\ DOMAIN o.country.counts = {r.cell[CountryCol] : r \in Range(o.filtered)}
    /\ o.tables.status = "done"
    /\ o.raw.status = "done" /\ o.raw.total_rows = Len(o.filtered)

C6_OptionalFileAbsent ==
    (Loaded /\ out.status # "init") =>
        /\ CompanyKey \notin DOMAIN Data =>
              /\ out.status = "done"
              /\ out.company.status = "disabled"
              /\ "Company aggregation data not available" \in out.messages
              /\ PlantViewsComputed(out)
              /\ EnvKey \in DOMAIN Data =>
                    /\ out.env.status = "done"
                    /\ "Environmental data not available" \notin out.messages
        /\ EnvKey \notin DOMAIN Data =>
              /\ out.status = "done"
              /\ out.env.status = "disabled"
              /\ "Environmental data not available" \in out.messages
              /\ PlantViewsComputed(out)
              /\ CompanyKey \in DOMAIN Data =>
                    /\ out.company.status \in {"fig", "none"}
                    /\ "Company aggregation data not available" \notin out.messages

C6_Witness ==
    /\ Loaded /\ out.status = "done"
    /\ CompanyKey \notin DOMAIN Data /\ EnvKey \in DOMAIN Data
    /\ out.company.status = "disabled" /\ out.env.status = "done"
    /\ out.filtered # <<>>

-----------------------------------------------------------------------------
(* C7: a loaded table that lacks one of its expected columns never ends    *)
(* the run with an error, whatever the filters and the map type.           *)

C7_MissingColumnNeverRaises ==
    (/\ Loaded /\ out.status # "init"
     /\ \/ PlantCols \ Base.columns # {}
        \/ EnvKey \in DOMAIN Data /\ EnvCols \ Data[EnvKey].columns # {})
    => out.status = "done"

-----------------------------------------------------------------------------
(* C8: when the filters leave no row (of tables that have every expected   *)
(* column), every view completes and every summary metric shows 0: plants, *)
(* total and average capacity, countries, and the environmental mean, max, *)
(* min and high-risk count.                                                *)

C8_EmptyResultShowsZeros ==
    /\ (Filtered /\ Base.columns = PlantCols /\ out.filtered = <<>>)
          => /\ out.metrics = [plants |-> 0, total |-> 0, average |-> 0,
                               ncountries |-> 0]
             /\ EnvKey \in DOMAIN Data /\ Data[EnvKey].columns = EnvCols
                   => out.status = "done"
    /\ (EnvFiltered /\ Data[EnvKey].columns = EnvCols /\ out.env.rows = <<>>)
          => out.env.metrics = [average |-> 0, max |-> 0, min |-> 0, high_risk |-> 0]

-----------------------------------------------------------------------------
(* C9: each of the three company charts shows the (at most 20) owners with *)
(* the largest value of the chart's metric among the owners left by the    *)
(* owner and country restriction, descending by that metric, owners with   *)
(* equal metric in input order.                                            *)

\* The company rows left by the restriction to the selected owner and to the
\* owners of the filtered plants
Restricted(rows, w, filtered) ==
    SelectSeq(rows, LAMBDA r :
        /\ w.company = All \/ r.cell[OwnerCol] = w.company
        /\ w.country = All
              \/ \E i \in 1..Len(filtered) : filtered[i].cell[OwnerCol] = r.cell[OwnerCol])

\* The n rows with the largest metric, descending, ties in input order
TopBy(rows, metric, n) ==
    LET sorted == SortDesc([i \in 1..Len(rows) |->
                               [key |-> rows[i].cell[metric], item |-> rows[i]]])
    IN Head_n([i \in 1..Len(sorted) |-> sorted[i].item], n)

C9_ChartsShowTop20 ==
    out.company.status = "fig" =>
        LET rows == Restricted(Data[CompanyKey].rows, out.widgets, out.filtered)
        IN /\ out.company.fig_capacity
                = Bars(TopBy(rows, TotalCapacity, TopCompanies), TotalCapacity)
           /\ out.company.fig_plants
                = Bars(TopBy(rows, NumberOfPlants, TopCompanies), NumberOfPlants)
           /\ out.company.fig_countries
                = Bars(TopBy(rows, NumberOfCountries, TopCompanies), NumberOfCountries)

-----------------------------------------------------------------------------
(* C10: the high-risk count is the number of rows of the filtered          *)
(* environmental table whose value is strictly greater than the 75th       *)
(* percentile (linear interpolation between order statistics) of the value *)
(* column of that filtered table.  For the values 10, 20, 30, 40 the       *)
(* threshold is 32.5 and the count is 1.                                   *)

\* The k-th smallest of the values
OrderStat(vals, k) ==
    CHOOSE v \in Range(vals) :
        /\ Cardinality({i \in 1..Len(vals) : vals[i] < v}) < k
        /\ k <= Cardinality({i \in 1..Len(vals) : vals[i] <= v})

\* Four times the 75th percentile of a non-empty sequence of values
Percentile75x4(vals) ==
    LET h == 3 * (Len(vals) - 1)
        lower == OrderStat(vals, (h \div 4) + 1)
    IN IF h % 4 = 0 THEN 4 * lower
       ELSE 4 * lower + (h % 4) * (OrderStat(vals, (h \div 4) + 2) - lower)

\* The rows with a value above the 75th percentile of the values of over
AboveP75(rows, over) ==
    LET vals == SelectSeq(Column(over, ValueCol), LAMBDA v : v # NaN)
    IN IF vals = <<>> THEN {}
       ELSE {i \in 1..Len(rows) : /\ rows[i].cell[ValueCol] # NaN
                                  /\ 4 * rows[i].cell[ValueCol] > Percentile75x4(vals)}

C10_HighRiskOfFiltered ==
    (EnvFiltered /\ ValueCol \in Data[EnvKey].columns) =>
        /\ KeptExactly(Data[EnvKey], out.env.rows, out.widgets)
        /\ out.env.metrics.high_risk = Cardinality(AboveP75(out.env.rows, out.env.rows))
        /\ Column(out.env.rows, ValueCol) = <<10, 20, 30, 40>>
              => /\ Percentile75x4(Column(out.env.rows, ValueCol)) = 130
                 /\ out.env.metrics.high_risk = 1

\* A filter in force, and the count differs from the one the threshold of the
\* unfiltered table would give
C10_Witness ==
    /\ EnvFiltered /\ ValueCol \in Data[EnvKey].columns
    /\ out.widgets.country # All
    /\ Len(out.env.rows) < Len(Data[EnvKey].rows)
    /\ out.env.metrics.high_risk = 1
    /\ Cardinality(AboveP75(out.env.rows, Data[EnvKey].rows)) = 0

-----------------------------------------------------------------------------
(* C11: whatever filters and map types the runs used, and whatever views   *)
(* they computed (the capacity maps with their fillna(0) included), a run  *)
(* that takes the tables from the memo leaves the memo as it was, the      *)
(* plants, environmental and company tables a run holds are, at its end,   *)
(* equal to the memoized ones in rows and cell values, and the country and *)
(* owner options it offers are the values of the whole plants table.       *)

MemoOf(c) == (CHOOSE r \in c[DataDir] : TRUE).data

\* 'All' and the values of the column over every row of the table
OptionsOf(t, col) ==
    {All} \cup (IF col \in t.columns
                THEN {r.cell[col] : r \in Range(t.rows)} \ {NaT} ELSE {})

C11_BaseTablesUntouched ==
    [][(files' = files /\ out'.metrics_shown) =>
          /\ (Loaded /\ ~out'.reloaded) => cache' = cache
          /\ out'.frames = MemoOf(cache')
          /\ out'.countries = OptionsOf(MemoOf(cache')[PlantsKey], CountryCol)
          /\ out'.companies = OptionsOf(MemoOf(cache')[PlantsKey], OwnerCol)]_vars

\* A run from the memo with a country selected, both capacity maps drawn, a
\* plant without capacity in the base table, and options the filter removed
C11_Witness ==
    /\ out.status = "done" /\ ~out.read /\ Loaded
    /\ out.widgets.country = "A" /\ out.widgets.map_type = "capacity"
    /\ out.map.status = "fig"
    /\ out.widgets.env_map_type = "capacity_env" /\ out.env.map.status = "fig"
    /\ \E r \in Range(Base.rows) : r.cell[capcol] = NaN
    /\ Len(out.filtered) < Len(Base.rows)
    /\ "B" \in out.countries
    /\ \A r \in Range(out.filtered) : r.cell[CountryCol] # "B"

-----------------------------------------------------------------------------
(* C12: a run that executes load_data while the plants file is absent      *)
(* memoizes the None result.  From then on every run, whatever the user    *)
(* does (a click on the reload button included) and whatever the files     *)
(* hold by then, takes None from the memo, halts at st.stop() before the   *)
(* reload button is evaluated, leaves the memo as it is, reads no file     *)
(* and computes no view.                                                   *)

NoneMemoized == cache[DataDir] # {} /\ \A r \in cache[DataDir] : r.none

C12_MissingFileMemoSticks ==
    [][/\ (files' = files /\ PlantsFile \notin DOMAIN files /\ out'.read)
             => NoneMemoized'
       /\ NoneMemoized =>
             /\ cache' = cache
             /\ files' = files =>
                   /\ out'.status = "stopped" /\ out'.error
                   /\ ~out'.read /\ ~out'.reloaded
                   /\ NothingRendered(out')]_vars

\* The plants file is on disk again, and a run from the memo still halted
C12_Witness ==
    /\ NoneMemoized /\ PlantsFile \in DOMAIN files
    /\ out.status = "stopped" /\ ~out.read /\ out.error

=============================================================================
